---- MODULE Spec2Model ----
(***************************************************************************)
(* Model of the lenient_bool crate (src/src/lib.rs): the LenientBool       *)
(* newtype, its FromStr implementation and its conversion / access impls.  *)
(*                                                                         *)
(* A &str is modelled as the sequence of its Unicode scalar values; the    *)
(* byte-level comparison of str::eq_ignore_ascii_case is modelled on the   *)
(* UTF-8 encoding of that sequence.                                        *)
(***************************************************************************)
EXTENDS Integers, Sequences, FiniteSets

VARIABLES input, pc, result, lb, out, written, conv, back, dflt

vars == <<input, pc, result, lb, out, written, conv, back, dflt>>

\* ------------------------------------------------------------------ bounds
\* longest string of the exhaustively enumerated inputs
MaxLen == 2
\* largest number of extra characters put around a token
MaxPad == 1

\* ------------------------------------------------------------------ values
None == [tag |-> "None"]
Some(x) == [tag |-> "Some", v |-> x]

\* pub struct LenientBool(pub bool): one public field, .0
LenientBool(b) == [f0 |-> b]

\* pub struct LenientBoolError(()): one unit field
LenientBoolError == [e0 |-> <<>>]

Ok(x) == [tag |-> "Ok", val |-> x]
Err(e) == [tag |-> "Err", err |-> e]

\* bool::default(), used by the derived Default
bool_default == FALSE

\* a default that holds true
Default_true == LenientBool(TRUE)

\* #[derive(Default)]: every field is default-constructed
Default == LenientBool(bool_default)

\* ------------------------------------------------------------------ strings
\* the UTF-8 encoding of one Unicode scalar value
Utf8(c) ==
    IF c < 128 THEN <<c>>
    ELSE IF c < 2048 THEN <<192 + (c \div 64), 128 + (c % 64)>>
    ELSE IF c < 65536 THEN
        <<224 + (c \div 4096), 128 + ((c \div 64) % 64), 128 + (c % 64)>>
    ELSE <<240 + (c \div 262144), 128 + ((c \div 4096) % 64),
           128 + ((c \div 64) % 64), 128 + (c % 64)>>

RECURSIVE as_bytes(_)
\* str::as_bytes: the bytes of the string's UTF-8 encoding
as_bytes(s) == IF s = <<>> THEN <<>> ELSE Utf8(Head(s)) \o as_bytes(Tail(s))

\* no folding at all: a case-sensitive comparison
to_ascii_lowercase_none(b) == b

\* u8::to_ascii_lowercase: only b'A'..=b'Z' change (bit 0x20 is set)
to_ascii_lowercase(b) == IF b >= 65 /\ b <= 90 THEN b + 32 ELSE b

\* simple Unicode case folding of the characters the inputs are drawn from
UnicodeFold(c) ==
    IF c >= 65 /\ c <= 90 THEN c + 32
    ELSE IF c = 383 THEN 115
    ELSE IF c = 8490 THEN 107
    ELSE IF c = 201 THEN 233
    ELSE IF c >= 65313 /\ c <= 65338 THEN c + 32
    ELSE c

\* a comparison that folds case over all of Unicode
eq_ignore_case_unicode(a, b) ==
    /\ Len(a) = Len(b)
    /\ \A i \in 1..Len(a) : UnicodeFold(a[i]) = UnicodeFold(b[i])

\* str::eq_ignore_ascii_case: same byte length, bytes equal after ASCII folding
eq_ignore_ascii_case(a, b) ==
    LET x == as_bytes(a)
        y == as_bytes(b)
    IN /\ Len(x) = Len(y)
       /\ \A i \in 1..Len(x) : to_ascii_lowercase(x[i]) = to_ascii_lowercase(y[i])

\* the string literals of from_str
lit_true == <<116, 114, 117, 101>>
lit_t == <<116>>
lit_yes == <<121, 101, 115>>
lit_y == <<121>>
lit_1 == <<49>>
lit_false == <<102, 97, 108, 115, 101>>
lit_f == <<102>>
lit_no == <<110, 111>>
lit_n == <<110>>
lit_0 == <<48>>

\* ------------------------------------------------------------------ from_str
\* the condition of the first branch of from_str
truthy(s) ==
    \/ eq_ignore_ascii_case(s, lit_true)
    \/ eq_ignore_ascii_case(s, lit_t)
    \/ eq_ignore_ascii_case(s, lit_yes)
    \/ eq_ignore_ascii_case(s, lit_y)
    \/ s = lit_1

\* the falsy condition of a six-token vocabulary (false, f, 0 only)
falsy_six(s) ==
    \/ eq_ignore_ascii_case(s, lit_false)
    \/ eq_ignore_ascii_case(s, lit_f)
    \/ s = lit_0

\* a falsy condition that shares the token "t" with the truthy one
falsy_overlap(s) ==
    \/ eq_ignore_ascii_case(s, lit_false)
    \/ eq_ignore_ascii_case(s, lit_t)
    \/ eq_ignore_ascii_case(s, lit_no)
    \/ eq_ignore_ascii_case(s, lit_n)
    \/ s = lit_0

\* the condition of the second branch of from_str
falsy(s) ==
    \/ eq_ignore_ascii_case(s, lit_false)
    \/ eq_ignore_ascii_case(s, lit_f)
    \/ eq_ignore_ascii_case(s, lit_no)
    \/ eq_ignore_ascii_case(s, lit_n)
    \/ s = lit_0

IsSpace(c) == c = 32 \/ c = 9

RECURSIVE TrimStart(_)
TrimStart(s) == IF s # <<>> /\ IsSpace(Head(s)) THEN TrimStart(Tail(s)) ELSE s

RECURSIVE TrimEnd(_)
TrimEnd(s) ==
    IF s # <<>> /\ IsSpace(s[Len(s)]) THEN TrimEnd(SubSeq(s, 1, Len(s) - 1)) ELSE s

\* from_str on the trimmed input
from_str_trim(s) ==
    LET t == TrimEnd(TrimStart(s))
    IN IF truthy(t) THEN Ok(LenientBool(TRUE))
       ELSE IF falsy(t) THEN Ok(LenientBool(FALSE))
       ELSE Err(LenientBoolError)

\* from_str falling back to the default boolean instead of failing
from_str_fallback(s) ==
    IF truthy(s) THEN Ok(LenientBool(TRUE))
    ELSE IF falsy(s) THEN Ok(LenientBool(FALSE))
    ELSE Ok(Default)

\* <LenientBool as FromStr>::from_str
from_str(s) ==
    IF truthy(s) THEN Ok(LenientBool(TRUE))
    ELSE IF falsy(s) THEN Ok(LenientBool(FALSE))
    ELSE Err(LenientBoolError)

\* from_str with its two branches in the other order
from_str_swapped(s) ==
    IF falsy(s) THEN Ok(LenientBool(FALSE))
    ELSE IF truthy(s) THEN Ok(LenientBool(TRUE))
    ELSE Err(LenientBoolError)

\* ------------------------------------------------------------------ impls
\* A From impl is recorded with the type the trait obliges it to produce
\* (target), the return type its signature declares (ret) and the value its
\* body evaluates to (val).

\* impl From<LenientBool> for bool: fn from(n: LenientBool) -> bool { n.0 }
bool_from(n) == [target |-> "bool", ret |-> "bool", val |-> n.f0]

\* impl From<bool> for LenientBool: fn from(b: bool) -> bool { LenientBool(b) }
LenientBool_from(b) == [target |-> "LenientBool", ret |-> "bool", val |-> LenientBool(b)]

\* the conversion exists as the trait's method only if the signature agrees
Converts(c) == c.ret = c.target

\* impl AsRef<bool>: &self.0
as_ref(self) == self.f0

\* impl Deref: &self.0
deref(self) == self.f0

\* a write through a reference to a copy: self is left as it was
write_lost(self, b) == self

\* impl AsMut<bool>: a write through &mut self.0
as_mut_write(self, b) == [self EXCEPT !.f0 = b]

\* impl DerefMut: a write through &mut self.0
deref_mut_write(self, b) == [self EXCEPT !.f0 = b]

\* ------------------------------------------------------------------ inputs
\* the two vocabularies, as the spec lists them
TruthyTokens == {lit_true, lit_t, lit_yes, lit_y, lit_1}
FalsyTokens == {lit_false, lit_f, lit_no, lit_n, lit_0}
Tokens == TruthyTokens \cup FalsyTokens

IsAsciiLower(c) == c >= 97 /\ c <= 122
IsAsciiUpper(c) == c >= 65 /\ c <= 90
IsAsciiLetter(c) == IsAsciiLower(c) \/ IsAsciiUpper(c)
IsDigit(c) == c >= 48 /\ c <= 57
IsAscii(c) == c < 128
Upper(c) == IF IsAsciiLower(c) THEN c - 32 ELSE c

\* s is t with any of its ASCII letters in either case (t is a lower-case token)
IsCaseVariant(s, t) ==
    /\ Len(s) = Len(t)
    /\ \A i \in 1..Len(t) : s[i] = t[i] \/ s[i] = Upper(t[i])

IsTruthyVariant(s) == \E t \in TruthyTokens : IsCaseVariant(s, t)
IsFalsyVariant(s) == \E t \in FalsyTokens : IsCaseVariant(s, t)
IsTokenVariant(s) == IsTruthyVariant(s) \/ IsFalsyVariant(s)

\* every way of writing token t in upper, lower or mixed case
CaseVariants(t) ==
    { [i \in 1..Len(t) |-> IF i \in m THEN Upper(t[i]) ELSE t[i]] :
        m \in SUBSET (1..Len(t)) }

AllVariants == UNION { CaseVariants(t) : t \in Tokens }

SeqsUpTo(S, n) == UNION { [1..k -> S] : k \in 0..n }

\* t T n N o O y f F 0 1 2 space . a b c, and U+017F U+00C9 U+FF54
ShortAlphabet ==
    {116, 84, 110, 78, 111, 79, 121, 102, 70, 48, 49, 50, 32, 46, 97, 98, 99,
     383, 201, 65364}

ShortInputs == SeqsUpTo(ShortAlphabet, MaxLen)

\* space, tab, 0 1 . e o, and U+017F
PadChars == {32, 9, 48, 49, 46, 101, 111, 383}

PadPairs ==
    { p \in SeqsUpTo(PadChars, MaxPad) \X SeqsUpTo(PadChars, MaxPad) :
        Len(p[1]) + Len(p[2]) >= 1 /\ Len(p[1]) + Len(p[2]) <= MaxPad }

\* a case-variant of a token with extra characters before and/or after it
PaddedInputs == { p[1] \o v \o p[2] : v \in AllVariants, p \in PadPairs }

\* s is a token variant with at least one extra character around it
IsPadded(s) ==
    \E i \in 1..(Len(s) + 1) : \E j \in (i - 1)..Len(s) :
        /\ j - i + 1 < Len(s)
        /\ IsTokenVariant(SubSeq(s, i, j))

\* the characters between positions i and j are the token; the rest are extra
HasNonLetterPadding(s) ==
    \E i \in 1..(Len(s) + 1) : \E j \in (i - 1)..Len(s) :
        /\ j - i + 1 < Len(s)
        /\ IsTokenVariant(SubSeq(s, i, j))
        /\ \E k \in (1..(i - 1)) \cup ((j + 1)..Len(s)) : ~IsAsciiLetter(s[k])

\* non-ASCII look-alikes: U+017F U+00C9 U+00E9 U+212A U+FF54 U+FF34 U+1F600
LookAlikes == {383, 201, 233, 8490, 65364, 65332, 128512}

\* a token variant with one character replaced by a non-ASCII one
SubstitutedInputs ==
    UNION { { [v EXCEPT ![i] = c] : i \in 1..Len(v), c \in LookAlikes } :
            v \in AllVariants }

\* "", "abc", "maybe", "2", " yes", "01", "1.0", " 1"
Examples ==
    { <<>>, <<97, 98, 99>>, <<109, 97, 121, 98, 101>>, <<50>>,
      <<32, 121, 101, 115>>, <<48, 49>>, <<49, 46, 48>>, <<32, 49>> }

Inputs ==
    ShortInputs \cup AllVariants \cup PaddedInputs \cup SubstitutedInputs \cup Examples

\* ------------------------------------------------------------------ the caller
Init ==
    /\ input \in Inputs
    /\ pc = "start"
    /\ result = None
    /\ lb = None
    /\ out = None
    /\ written = None
    /\ conv = None
    /\ back = None
    /\ dflt = None

\* let r = input.parse::<LenientBool>();
FromStr ==
    /\ pc = "start"
    /\ result' = from_str(input)
    /\ pc' = "parsed"
    /\ UNCHANGED <<input, lb, out, written, conv, back, dflt>>

\* let lb = r.unwrap();   (taken only when r.is_ok())
Unwrap ==
    /\ pc = "parsed"
    /\ result.tag = "Ok"
    /\ lb' = Some(result.val)
    /\ pc' = "unwrapped"
    /\ UNCHANGED <<input, result, out, written, conv, back, dflt>>

Read(path, b) ==
    /\ pc = "unwrapped"
    /\ out' = Some([path |-> path, v |-> b])
    /\ UNCHANGED <<input, pc, result, lb, written, conv, back, dflt>>

\* let b: bool = lb.into();
Into == Read("into", bool_from(lb.v).val)

\* *lb
DerefRead == Read("deref", deref(lb.v))

\* *lb.as_ref()
AsRefRead == Read("as_ref", as_ref(lb.v))

\* lb.0
FieldRead == Read("field", lb.v.f0)

Write(new, b) ==
    /\ pc = "unwrapped"
    /\ lb' = Some(new)
    /\ written' = Some(b)
    /\ UNCHANGED <<input, pc, result, out, conv, back, dflt>>

\* *lb = b;
DerefMutWrite == \E b \in BOOLEAN : Write(deref_mut_write(lb.v, b), b)

\* *lb.as_mut() = b;
AsMutWrite == \E b \in BOOLEAN : Write(as_mut_write(lb.v, b), b)

\* let w: LenientBool = b.into();
Wrap ==
    /\ pc = "unwrapped"
    /\ \E b \in BOOLEAN : conv' = Some([arg |-> b, call |-> LenientBool_from(b)])
    /\ back' = None
    /\ UNCHANGED <<input, pc, result, lb, out, written, dflt>>

\* let b2: bool = w.into();
Unwrapped ==
    /\ pc = "unwrapped"
    /\ conv # None
    /\ back' = Some(bool_from(conv.v.call.val).val)
    /\ UNCHANGED <<input, pc, result, lb, out, written, conv, dflt>>

\* let d = LenientBool::default();
MakeDefault ==
    /\ pc = "parsed"
    /\ dflt = None
    /\ dflt' = Some(Default)
    /\ UNCHANGED <<input, pc, result, lb, out, written, conv, back>>

Next ==
    \/ FromStr
    \/ Unwrap
    \/ Into
    \/ DerefRead
    \/ AsRefRead
    \/ FieldRead
    \/ DerefMutWrite
    \/ AsMutWrite
    \/ Wrap
    \/ Unwrapped
    \/ MakeDefault

Spec == Init /\ [][Next]_vars

\* ------------------------------------------------------------------ claims
Parsed == pc # "start"
HasDigit(s) == \E i \in 1..Len(s) : IsDigit(s[i])
HasNonAscii(s) == \E i \in 1..Len(s) : ~IsAscii(s[i])

\* C1: every upper, lower or mixed case writing of a truthy token parses to
\* Ok(LenientBool(true)).
C1_TruthyAccepted ==
    (Parsed /\ IsTruthyVariant(input)) => result = Ok(LenientBool(TRUE))

\* "TrUe" has been parsed to Ok(LenientBool(true))
C1_Witness ==
    /\ pc = "parsed"
    /\ input = <<84, 114, 85, 101>>
    /\ result = Ok(LenientBool(TRUE))

\* C2: every upper, lower or mixed case writing of a falsy token parses to
\* Ok(LenientBool(false)).
C2_FalsyAccepted ==
    (Parsed /\ IsFalsyVariant(input)) => result = Ok(LenientBool(FALSE))

\* "nO" has been parsed to Ok(LenientBool(false))
C2_Witness ==
    /\ pc = "parsed"
    /\ input = <<110, 79>>
    /\ result = Ok(LenientBool(FALSE))

\* C3: an input that is no case-variant of any of the ten tokens parses to
\* Err(LenientBoolError(())), and that is the only error value there is: no
\* boolean is returned in its place.
C3_OthersRejected ==
    Parsed =>
        /\ ~IsTokenVariant(input) => result = Err(LenientBoolError)
        /\ result.tag = "Err" => result = Err(LenientBoolError)
        /\ result.tag = "Ok" => IsTokenVariant(input)

\* "maybe" has been parsed to the error
C3_Witness ==
    /\ pc = "parsed"
    /\ input = <<109, 97, 121, 98, 101>>
    /\ result = Err(LenientBoolError)

\* C4: for every boolean b, From<bool> yields LenientBool(b) as a LenientBool,
\* and From<LenientBool> for bool takes that value back to b.
C4_RoundTrip ==
    conv # None =>
        /\ Converts(conv.v.call)
        /\ conv.v.call.val = LenientBool(conv.v.arg)
        /\ back # None => back.v = conv.v.arg

\* C5: while the parsed value is untouched, every read path gives true for a
\* truthy input and false for a falsy one, and wrapping the boolean that was
\* read gives a LenientBool equal to the parsed one.
C5_UnwrapThenWrap ==
    (pc = "unwrapped" /\ written = None) =>
        /\ lb.v = result.val
        /\ out # None => out.v.v = IsTruthyVariant(input)
        /\ (out # None /\ conv # None /\ conv.v.arg = out.v.v) =>
              /\ Converts(conv.v.call)
              /\ conv.v.call.val = result.val

\* C6: LenientBool::default() is LenientBool(false), and it equals what any
\* falsy token parses to.
C6_DefaultIsFalse ==
    dflt # None =>
        /\ dflt.v = LenientBool(FALSE)
        /\ (Parsed /\ IsFalsyVariant(input)) => result = Ok(dflt.v)

\* "No" has been parsed and compared with a default-constructed value
C6_Witness ==
    /\ dflt # None
    /\ input = <<78, 111>>
    /\ result = Ok(dflt.v)

\* C7 as stated: a token with one or more extra characters of any kind before
\* or after it is rejected, and "1" and "0" are the only accepted inputs that
\* contain a digit.
C7_AnyPaddingRejected ==
    Parsed =>
        /\ IsPadded(input) => result = Err(LenientBoolError)
        /\ (HasDigit(input) /\ result.tag = "Ok") => input \in {lit_1, lit_0}

\* C7: a token with extra characters before or after it, at least one of which
\* is not an ASCII letter, is rejected, and "1" and "0" are the only accepted
\* inputs that contain a digit.
C7_NoTrimNoNumeric ==
    Parsed =>
        /\ HasNonLetterPadding(input) => result = Err(LenientBoolError)
        /\ (HasDigit(input) /\ result.tag = "Ok") => input \in {lit_1, lit_0}

\* " yes" has been parsed to the error
C7_Witness ==
    /\ pc = "parsed"
    /\ input = <<32, 121, 101, 115>>
    /\ HasNonLetterPadding(input)
    /\ result = Err(LenientBoolError)

\* C8: an input with at least one non-ASCII character is rejected.
C8_NonAsciiRejected ==
    (Parsed /\ HasNonAscii(input)) => result = Err(LenientBoolError)

\* "ye" followed by U+017F (long s) has been parsed to the error
C8_Witness ==
    /\ pc = "parsed"
    /\ input = <<121, 101, 383>>
    /\ result = Err(LenientBoolError)

\* C9: no input satisfies both conditions of from_str, and testing the falsy
\* condition first gives the result from_str gave.
C9_OrderUnobservable ==
    /\ ~(truthy(input) /\ falsy(input))
    /\ Parsed => result = from_str_swapped(input)

\* "T" has been parsed; it is accepted and the swapped order agrees
C9_Witness ==
    /\ pc = "parsed"
    /\ input = <<84>>
    /\ result = Ok(LenientBool(TRUE))
    /\ result = from_str_swapped(input)

\* C10: once a boolean has been written through deref_mut or as_mut, every
\* read path returns the last one written; the struct still has its one field
\* and that field is true or false.
C10_LastWriteRead ==
    lb # None =>
        /\ DOMAIN lb.v = {"f0"}
        /\ lb.v.f0 \in BOOLEAN
        /\ written # None =>
              /\ lb.v.f0 = written.v
              /\ deref(lb.v) = written.v
              /\ as_ref(lb.v) = written.v
              /\ bool_from(lb.v).val = written.v

\* a parsed false has been overwritten with true and read back through deref
C10_Witness ==
    /\ result = Ok(LenientBool(FALSE))
    /\ written = Some(TRUE)
    /\ out = Some([path |-> "deref", v |-> TRUE])

====
